---- MODULE Spec2Model ----
(***************************************************************************)
(* Model of build_ffmpeg_command (src/render_engine.py): the render-plan   *)
(* compiler that threads a current video stream label through the crop,    *)
(* zoom, template and subtitle stages and assembles the ffmpeg arguments.  *)
(*                                                                         *)
(* Strings the code builds with f-strings are kept as structured values:   *)
(* a filter fragment is a record (source label, auxiliary input streams,   *)
(* filter name, options, output label), a path is a sequence of            *)
(* characters, so that escaping is computed character by character.        *)
(***************************************************************************)
EXTENDS Integers, Sequences, FiniteSets, TLC

VARIABLES
    pc,                   \* position inside build_ffmpeg_command
    config,               \* render_config (crop_mode, zoom_effect, template_id, subtitle_style)
    video_info,           \* probed metadata handed to the compiler
    assets,               \* os.path.exists() of the two overlay assets
    input_srt_path,       \* subtitle path, a sequence of characters
    inputs_args,          \* declared input files, in order
    filter_complex_parts, \* accumulated filter fragments
    current_v_stream,     \* current video stream label
    next_input_idx,       \* next free input slot
    outcome,              \* "running", "plan" (returned) or "KeyError" (raised)
    full_command          \* the returned plan

vars == <<pc, config, video_info, assets, input_srt_path, inputs_args,
          filter_complex_parts, current_v_stream, next_input_idx, outcome,
          full_command>>

(***************************************************************************)
(* Bounds of the model.                                                    *)
(***************************************************************************)
MaxDim == 4
MaxPathLen == 3

\* Python's None: the value config.get() returns for an absent key.
None == "<None>"

\* Option values tried: absent, empty, every recognised value, one unknown.
CropModes == {None, "", "center_crop", "fit_blur"}
TemplateIds == {None, "", "template_1", "template_2", "template_9"}
SubtitleStyles == {None, "", "bold_white_box", "yellow_bold", "nonexistent_style"}

\* Widths and heights tried: small ones (non-positive included) and full HD.
Dims == (-1 .. MaxDim) \cup {1080, 1920}

BS == "\\"
PathChars == {"s", "/", BS, ":", "'"}

RECURSIVE SeqsUpTo(_, _)
SeqsUpTo(S, n) ==
    IF n = 0 THEN {<<>>}
    ELSE LET shorter == SeqsUpTo(S, n - 1)
         IN shorter \cup {Append(p, c) : p \in shorter, c \in S}

Paths == SeqsUpTo(PathChars, MaxPathLen)

\* The path main() passes: os.path.join(DOWNLOADS_DIR, srt_filename).
DefaultSrtPath == <<"d", "/", "s">>

VIDEO_INPUT == "input_video"
BRAND_ASSET == "assets/brand_bar.png"
WATERMARK_ASSET == "assets/watermark_logo.png"

\* Truthiness of a string-valued option (if config.get(...):).
Truthy(v) == v \notin {None, ""}

\* int(n / d) for integers n, d > 0: truncation toward zero.
IntTrunc(n, d) == IF n >= 0 THEN n \div d ELSE -((-n) \div d)

(***************************************************************************)
(* Filter fragments.                                                       *)
(***************************************************************************)
Frag(src, aux, filter, opts, out) ==
    [src |-> src, aux |-> aux, filter |-> filter, opts |-> opts,
     geom |-> <<>>, filename |-> <<>>, out |-> out]

\* A reference that names the slot after the one just allocated.
InputStreamAfterIncrement(idx) == idx + 1

\* f"[{next_input_idx}:v]": the video stream of the input in slot idx.
InputStream(idx) == idx

TargetWidth(input_height) == IntTrunc(input_height * 9, 16)

OffsetX(input_width, target_width) == IntTrunc(input_width - target_width, 2)

\* A crop test that forgets the landscape condition.
CropAppliesAnyShape(cfg, info) == cfg.crop_mode = "center_crop"

CropApplies(cfg, info) ==
    cfg.crop_mode = "center_crop" /\ info.width > info.height

\* The state threaded through the stages.
StartState ==
    [v |-> "[0:v]", idx |-> 1, inputs |-> <<VIDEO_INPUT>>, parts |-> <<>>]

CropStage(cfg, info, st) ==
    IF CropApplies(cfg, info)
    THEN LET target_width == TargetWidth(info.height)
             offset_x == OffsetX(info.width, target_width)
             crop_filter ==
                 [Frag(st.v, <<>>, "crop", "", "[cropped]")
                      EXCEPT !.geom = <<target_width, info.height, offset_x, 0>>]
         IN [st EXCEPT !.parts = Append(@, crop_filter), !.v = "[cropped]"]
    ELSE st

ZOOM_OPTS == "w='iw*pow(1+0.05,t)':h='ih*pow(1+0.05,t)':eval=frame,crop=iw:ih"

\* A zoom stage that reads the decoded source instead of the current label.
ZoomStageFromSource(cfg, st) ==
    IF cfg.zoom_effect
    THEN [st EXCEPT !.parts = Append(@, Frag("[0:v]", <<>>, "scale", ZOOM_OPTS, "[zoomed]")),
                    !.v = "[zoomed]"]
    ELSE st

ZoomStage(cfg, st) ==
    IF cfg.zoom_effect
    THEN [st EXCEPT !.parts = Append(@, Frag(st.v, <<>>, "scale", ZOOM_OPTS, "[zoomed]")),
                    !.v = "[zoomed]"]
    ELSE st

BAR_OVERLAY_OPTS == "x=0:y=ih-overlay_h"
BAR_DRAWBOX_OPTS == "x=0:y=ih-50:w=iw:h=50:color=blue@0.7:t=fill"
BRAND_TEXT_OPTS == "text='Your Brand Here':x=(w-text_w)/2:y=20:fontsize=24:fontcolor=white:box=1:boxcolor=black@0.5:boxborderw=5"
BORDER_OPTS == "x=10:y=10:w=iw-20:h=ih-20:color=white:t=5"
WATERMARK_OPTS == "x=iw-overlay_w-10:y=ih-overlay_h-10"

\* An asset step: declare the file as an input, overlay its stream.
OverlayAsset(st, asset, opts, out) ==
    [st EXCEPT !.inputs = Append(@, asset),
               !.idx = @ + 1,
               !.parts = Append(@, Frag(st.v, <<InputStream(st.idx)>>, "overlay", opts, out)),
               !.v = out]

\* A step with no auxiliary input.
Apply(st, filter, opts, out) ==
    [st EXCEPT !.parts = Append(@, Frag(st.v, <<>>, filter, opts, out)), !.v = out]

\* A brand-bar step that overlays the asset without looking for the file.
Template1BarUnchecked(as, st) ==
    OverlayAsset(st, BRAND_ASSET, BAR_OVERLAY_OPTS, "[bar_applied]")

\* template_1, the bar: the asset when it exists, a drawn bar otherwise.
Template1Bar(as, st) ==
    IF as.brand_bar
    THEN OverlayAsset(st, BRAND_ASSET, BAR_OVERLAY_OPTS, "[bar_applied]")
    ELSE Apply(st, "drawbox", BAR_DRAWBOX_OPTS, "[bar_applied]")

\* template_2, the watermark: the asset when it exists, a pass-through otherwise.
Template2Watermark(as, st) ==
    IF as.watermark_logo
    THEN OverlayAsset(st, WATERMARK_ASSET, WATERMARK_OPTS, "[templated]")
    ELSE Apply(st, "null", "", "[templated]")

TemplateStage(cfg, as, st) ==
    LET template_id == cfg.template_id IN
    IF ~Truthy(template_id) THEN st
    ELSE IF template_id = "template_1"
         THEN Apply(Template1Bar(as, st), "drawtext", BRAND_TEXT_OPTS, "[templated]")
    ELSE IF template_id = "template_2"
         THEN Template2Watermark(as, Apply(st, "drawbox", BORDER_OPTS, "[bordered]"))
    ELSE st

BOLD_WHITE_BOX == "FontName=Arial,FontSize=24,PrimaryColour=&H00FFFFFF&,Bold=1,BorderStyle=3,OutlineColour=&H80000000&,BackColour=&H80000000&,MarginV=15"
YELLOW_BOLD == "FontName=Arial,FontSize=24,PrimaryColour=&H0000FFFF&,Bold=1,BorderStyle=1,Outline=1,MarginV=15"

\* A lookup that falls back to the first style for an unknown name.
StyleMapGetDefaulting(subtitle_style) ==
    IF subtitle_style = "yellow_bold" THEN YELLOW_BOLD ELSE BOLD_WHITE_BOX

\* style_map.get(subtitle_style): None for a name the table does not hold.
StyleMapGet(subtitle_style) ==
    IF subtitle_style = "bold_white_box" THEN BOLD_WHITE_BOX
    ELSE IF subtitle_style = "yellow_bold" THEN YELLOW_BOLD
    ELSE None

\* str.replace(BS BS, "/"): every non-overlapping pair of backslashes, left to right.
RECURSIVE ReplaceDoubleBackslash(_)
ReplaceDoubleBackslash(p) ==
    IF Len(p) < 2 THEN p
    ELSE IF p[1] = BS /\ p[2] = BS
         THEN <<"/">> \o ReplaceDoubleBackslash(SubSeq(p, 3, Len(p)))
         ELSE <<p[1]>> \o ReplaceDoubleBackslash(Tail(p))

\* str.replace(":", BS BS ":").
RECURSIVE ReplaceColon(_)
ReplaceColon(p) ==
    IF p = <<>> THEN <<>>
    ELSE (IF p[1] = ":" THEN <<BS, BS, ":">> ELSE <<p[1]>>) \o ReplaceColon(Tail(p))

\* The path as embedded between the quotes of filename='...'.
EscapePath(p) == ReplaceColon(ReplaceDoubleBackslash(p))

SubtitleStage(cfg, path, st) ==
    LET subtitle_style == cfg.subtitle_style
        force_style == IF Truthy(subtitle_style) THEN StyleMapGet(subtitle_style) ELSE None
    IN IF Truthy(subtitle_style) /\ Truthy(force_style)
       THEN LET subtitle_filter ==
                    [Frag(st.v, <<>>, "subtitles", force_style, "[subtitled]")
                         EXCEPT !.filename = EscapePath(path)]
            IN [st EXCEPT !.parts = Append(@, subtitle_filter), !.v = "[subtitled]"]
       ELSE st

\* A finalize step that always passes a filter graph.
EmitsFilterGraphAlways(parts) == TRUE

\* if filter_complex_parts:
EmitsFilterGraph(parts) == parts # <<>>

\* The returned command: inputs, optional -filter_complex, the two -map arguments.
Finalize(st) ==
    [inputs |-> st.inputs,
     has_filter_complex |-> EmitsFilterGraph(st.parts),
     filter_complex |-> st.parts,
     map_v |-> IF EmitsFilterGraph(st.parts) THEN st.v ELSE "[0:v]",
     map_a |-> IF EmitsFilterGraph(st.parts) THEN "0:a?" ELSE "[0:a]"]

NoCommand ==
    [inputs |-> <<>>, has_filter_complex |-> FALSE, filter_complex |-> <<>>,
     map_v |-> "", map_a |-> ""]

\* build_ffmpeg_command as one function of its inputs.
Compile(cfg, info, as, path) ==
    IF ~info.has_duration
    THEN [outcome |-> "KeyError", command |-> NoCommand]
    ELSE [outcome |-> "plan",
          command |-> Finalize(SubtitleStage(cfg, path,
                          TemplateStage(cfg, as,
                              ZoomStage(cfg, CropStage(cfg, info, StartState)))))]

(***************************************************************************)
(* The state machine: one action per step of build_ffmpeg_command.         *)
(***************************************************************************)
Configs ==
    [crop_mode : CropModes, zoom_effect : BOOLEAN,
     template_id : TemplateIds, subtitle_style : SubtitleStyles]

Assets == [brand_bar : BOOLEAN, watermark_logo : BOOLEAN]

Idle ==
    /\ pc = "start"
    /\ inputs_args = <<>>
    /\ filter_complex_parts = <<>>
    /\ current_v_stream = ""
    /\ next_input_idx = 0
    /\ outcome = "running"
    /\ full_command = NoCommand

\* Every render config, metadata and asset presence; the path main() passes.
Init ==
    /\ config \in Configs
    /\ video_info \in [width : Dims, height : Dims, has_duration : BOOLEAN]
    /\ assets \in Assets
    /\ input_srt_path = DefaultSrtPath
    /\ Idle

\* Every subtitle path up to MaxPathLen, for a landscape source.
InitPaths ==
    /\ config \in [crop_mode : {None}, zoom_effect : BOOLEAN,
                    template_id : {None, "template_1"}, subtitle_style : SubtitleStyles]
    /\ video_info = [width |-> 1920, height |-> 1080, has_duration |-> TRUE]
    /\ assets \in Assets
    /\ input_srt_path \in Paths
    /\ Idle

Inputs == <<config, video_info, assets, input_srt_path>>

State == [v |-> current_v_stream, idx |-> next_input_idx,
          inputs |-> inputs_args, parts |-> filter_complex_parts]

SetState(st) ==
    /\ current_v_stream' = st.v
    /\ next_input_idx' = st.idx
    /\ inputs_args' = st.inputs
    /\ filter_complex_parts' = st.parts

\* Lines 126-139: read the metadata (KeyError on an absent key), set up the state.
Start ==
    /\ pc = "start"
    /\ IF video_info.has_duration
       THEN /\ SetState(StartState)
            /\ pc' = "crop"
            /\ outcome' = outcome
       ELSE /\ pc' = "done"
            /\ outcome' = "KeyError"
            /\ UNCHANGED <<current_v_stream, next_input_idx, inputs_args,
                           filter_complex_parts>>
    /\ UNCHANGED <<Inputs, full_command>>

Crop ==
    /\ pc = "crop"
    /\ SetState(CropStage(config, video_info, State))
    /\ pc' = "zoom"
    /\ UNCHANGED <<Inputs, outcome, full_command>>

Zoom ==
    /\ pc = "zoom"
    /\ SetState(ZoomStage(config, State))
    /\ pc' = "template"
    /\ UNCHANGED <<Inputs, outcome, full_command>>

Template ==
    /\ pc = "template"
    /\ SetState(TemplateStage(config, assets, State))
    /\ pc' = "subtitle"
    /\ UNCHANGED <<Inputs, outcome, full_command>>

Subtitle ==
    /\ pc = "subtitle"
    /\ SetState(SubtitleStage(config, input_srt_path, State))
    /\ pc' = "finalize"
    /\ UNCHANGED <<Inputs, outcome, full_command>>

Return ==
    /\ pc = "finalize"
    /\ full_command' = Finalize(State)
    /\ outcome' = "plan"
    /\ pc' = "done"
    /\ UNCHANGED <<Inputs, current_v_stream, next_input_idx, inputs_args,
                   filter_complex_parts>>

Next == Start \/ Crop \/ Zoom \/ Template \/ Subtitle \/ Return

Spec == Init /\ [][Next]_vars

SpecPaths == InitPaths /\ [][Next]_vars

(***************************************************************************)
(* Vocabulary of the properties.                                           *)
(***************************************************************************)
Returned == pc = "done" /\ outcome = "plan"

\* What the call produced, comparable with Compile.
Result == [outcome |-> outcome, command |-> full_command]

\* A -map argument ending in "?" is optional: ffmpeg ignores it when no stream matches.
OptionalMaps == {"0:a?", "0:v?"}

ValidMetadata(info) == info.width > 0 /\ info.height > 0 /\ info.has_duration

\* Python's round(n / d) for n >= 0, d > 0: to nearest, ties to even.
PyRound(n, d) ==
    LET q == n \div d
        r == n % d
    IN IF 2 * r < d THEN q
       ELSE IF 2 * r > d THEN q + 1
       ELSE IF q % 2 = 0 THEN q ELSE q + 1

Unrecognized(v, known) == Truthy(v) /\ v \notin known

SomeUnrecognized(cfg) ==
    \/ Unrecognized(cfg.crop_mode, {"center_crop"})
    \/ Unrecognized(cfg.template_id, {"template_1", "template_2"})
    \/ Unrecognized(cfg.subtitle_style, {"bold_white_box", "yellow_bold"})

\* The config with every unrecognized value taken out.
WithoutUnrecognized(cfg) ==
    [cfg EXCEPT
        !.crop_mode = IF Unrecognized(@, {"center_crop"}) THEN None ELSE @,
        !.template_id = IF Unrecognized(@, {"template_1", "template_2"}) THEN None ELSE @,
        !.subtitle_style = IF Unrecognized(@, {"bold_white_box", "yellow_bold"}) THEN None ELSE @]

\* The stage a fragment belongs to, by the label it defines.
StageOf(frag) ==
    CASE frag.out = "[cropped]" -> 1
      [] frag.out = "[zoomed]" -> 2
      [] frag.out \in {"[bar_applied]", "[bordered]", "[templated]"} -> 3
      [] frag.out = "[subtitled]" -> 4
      [] OTHER -> 0

\* The asset an overlay fragment draws, by the label it defines.
AssetOf(frag) == IF frag.out = "[bar_applied]" THEN BRAND_ASSET ELSE WATERMARK_ASSET

\* Every input reference of the fragments names a declared input, the asset
\* the fragment overlays, and no two fragments name the same one.
SlotsSound(parts, inputs) ==
    /\ \A i \in DOMAIN parts : \A n \in DOMAIN parts[i].aux :
          LET k == parts[i].aux[n]
          IN /\ k >= 1
             /\ k < Len(inputs)
             /\ inputs[k + 1] = AssetOf(parts[i])
    /\ \A i, j \in DOMAIN parts :
          (i # j /\ parts[i].aux # <<>> /\ parts[j].aux # <<>>)
              => parts[i].aux # parts[j].aux
    /\ \A a, b \in DOMAIN inputs : a # b => inputs[a] # inputs[b]

\* The fragments form one chain from the decoded source.
Chained(parts) ==
    /\ parts # <<>> => parts[1].src = "[0:v]"
    /\ \A i \in DOMAIN parts : i > 1 => parts[i].src = parts[i - 1].out
    /\ \A i, j \in DOMAIN parts : i # j => parts[i].out # parts[j].out
    /\ \A i, j \in DOMAIN parts :
          i < j => (StageOf(parts[i]) <= StageOf(parts[j]) /\ StageOf(parts[i]) >= 1)

\* Reading a quoted literal of a filter graph: the first quote closes it.
RECURSIVE UpToQuote(_)
UpToQuote(lit) ==
    IF lit = <<>> \/ lit[1] = "'" THEN <<>>
    ELSE <<lit[1]>> \o UpToQuote(Tail(lit))

\* One level of un-escaping: a backslash is dropped and the next character kept.
RECURSIVE Unescape(_)
Unescape(lit) ==
    IF lit = <<>> THEN <<>>
    ELSE IF lit[1] = BS
         THEN IF Len(lit) = 1 THEN <<>>
              ELSE <<lit[2]>> \o Unescape(SubSeq(lit, 3, Len(lit)))
         ELSE <<lit[1]>> \o Unescape(Tail(lit))

\* The path a reader of the graph recovers from the embedded literal: the
\* literal up to its closing quote, un-escaped once by the graph parser and
\* once by the option parser (the two levels the code's two backslashes
\* before ":" are written for).
ReadLiteral(lit) == Unescape(Unescape(UpToQuote(lit)))

(***************************************************************************)
(* C1. In every returned plan the audio map is optional (the plan          *)
(* tolerates a source with no audio stream) and the video map is           *)
(* mandatory, whether or not a filter graph is emitted.                    *)
(***************************************************************************)
C1_AudioMapOptional ==
    Returned => /\ full_command.map_a \in OptionalMaps
                /\ full_command.map_v \notin OptionalMaps

(***************************************************************************)
(* C2. For landscape metadata of positive size with crop_mode              *)
(* "center_crop", the crop fragment is w = round(height * 9/16),           *)
(* h = height, x = floor((width - w) / 2), y = 0.                          *)
(***************************************************************************)
C2_CropWidthRounded ==
    \A i \in DOMAIN filter_complex_parts :
        (filter_complex_parts[i].filter = "crop"
            /\ video_info.width > 0 /\ video_info.height > 0)
        => LET w == PyRound(video_info.height * 9, 16)
           IN filter_complex_parts[i].geom =
                  <<w, video_info.height, (video_info.width - w) \div 2, 0>>

(***************************************************************************)
(* C3. build_ffmpeg_command fails exactly when the metadata is             *)
(* structurally invalid (width or height not positive, duration absent):   *)
(* it never returns a plan computed from non-positive geometry.            *)
(***************************************************************************)
C3_FailsExactlyOnInvalidMetadata ==
    pc = "done" => (outcome = "plan" <=> ValidMetadata(video_info))

(***************************************************************************)
(* C9. When the subtitle stage applies, un-escaping the path embedded in   *)
(* the fragment yields the original subtitle path, for every path made of  *)
(* separators (single backslashes included) and delimiters (":" and the    *)
(* quote that closes the literal).                                         *)
(***************************************************************************)
C9_EmbeddedPathRoundTrips ==
    \A i \in DOMAIN filter_complex_parts :
        filter_complex_parts[i].filter = "subtitles"
        => ReadLiteral(filter_complex_parts[i].filename) = input_srt_path

NoStyleOption(cfg) ==
    /\ ~Truthy(cfg.crop_mode)
    /\ ~cfg.zoom_effect
    /\ ~Truthy(cfg.template_id)
    /\ ~Truthy(cfg.subtitle_style)

(***************************************************************************)
(* C4. With no style option set (crop_mode, zoom_effect, template_id and   *)
(* subtitle_style absent or falsy) the returned plan has no fragment, no   *)
(* filter-graph argument, the source video as its only input, and maps     *)
(* the decoded streams of input 0 directly.                                *)
(***************************************************************************)
C4_NoOptionsDirectMapping ==
    (Returned /\ NoStyleOption(config))
    => /\ full_command.filter_complex = <<>>
       /\ ~full_command.has_filter_complex
       /\ full_command.inputs = <<VIDEO_INPUT>>
       /\ full_command.map_v = "[0:v]"
       /\ full_command.map_a = "[0:a]"

C4_Witness ==
    /\ Returned
    /\ NoStyleOption(config)
    /\ config.crop_mode = ""
    /\ config.subtitle_style = None
    /\ full_command.inputs = <<VIDEO_INPUT>>

\* Slots in every state: the next free slot is the number of declared inputs,
\* and each overlay reads the slot that holds its asset.
C5_SlotsSound ==
    /\ (pc # "start" /\ outcome # "KeyError")
           => /\ next_input_idx = Len(inputs_args)
              /\ SlotsSound(filter_complex_parts, inputs_args)
              /\ \A i \in DOMAIN filter_complex_parts :
                    (filter_complex_parts[i].filter = "overlay")
                        = (filter_complex_parts[i].aux # <<>>)
    /\ Returned => SlotsSound(full_command.filter_complex, full_command.inputs)

\* A template step that declares an input appends one asset, at the slot that
\* was free before the step, and one new fragment reads exactly that slot.
C5_Allocation ==
    (pc = "template" /\ inputs_args' # inputs_args)
    => /\ next_input_idx = Len(inputs_args)
       /\ Len(inputs_args') = Len(inputs_args) + 1
       /\ SubSeq(inputs_args', 1, Len(inputs_args)) = inputs_args
       /\ next_input_idx' = next_input_idx + 1
       /\ \E i \in DOMAIN filter_complex_parts' :
             /\ i > Len(filter_complex_parts)
             /\ filter_complex_parts'[i].aux = <<next_input_idx>>
             /\ inputs_args'[next_input_idx + 1] = AssetOf(filter_complex_parts'[i])
       /\ \A i \in DOMAIN filter_complex_parts' :
             filter_complex_parts'[i].aux \in {<<>>, <<next_input_idx>>}

(***************************************************************************)
(* C5. Input slots are unique and assigned in request order: the next free *)
(* slot is the number of inputs declared; a template step that consumes an *)
(* asset references exactly that slot and appends the asset there; every   *)
(* input reference of every fragment names a declared input, and no two    *)
(* assets share a slot.                                                    *)
(***************************************************************************)
C5_SlotsInRequestOrder == []C5_SlotsSound /\ [][C5_Allocation]_vars

C5_Witness ==
    /\ Returned
    /\ config.template_id = "template_2"
    /\ assets.watermark_logo
    /\ config.zoom_effect
    /\ \E i \in DOMAIN full_command.filter_complex :
          /\ full_command.filter_complex[i].filter = "overlay"
          /\ full_command.filter_complex[i].aux = <<1>>
    /\ full_command.inputs = <<VIDEO_INPUT, WATERMARK_ASSET>>

\* The fallback shape of template_1 in a fragment list, its inputs and the
\* label that is current after it.
TemplateFallback(parts, inputs, handle) ==
    /\ inputs = <<VIDEO_INPUT>>
    /\ \A i \in DOMAIN parts : parts[i].filter # "overlay" /\ parts[i].aux = <<>>
    /\ \E i \in DOMAIN parts :
          /\ i + 1 \in DOMAIN parts
          /\ parts[i].filter = "drawbox"
          /\ parts[i].opts = BAR_DRAWBOX_OPTS
          /\ parts[i].out = "[bar_applied]"
          /\ parts[i + 1].filter = "drawtext"
          /\ parts[i + 1].opts = BRAND_TEXT_OPTS
          /\ parts[i + 1].src = parts[i].out
          /\ parts[i + 1].out = "[templated]"
          \* nothing else of the template stage follows the text
          /\ \A j \in DOMAIN parts : j > i + 1 => StageOf(parts[j]) = 4
          \* the next fragment, or else the current label, is the text's output
          /\ IF i + 2 \in DOMAIN parts
             THEN parts[i + 2].src = "[templated]"
             ELSE handle = "[templated]"

(***************************************************************************)
(* C6. template_1 with the brand-bar asset absent, whatever the other      *)
(* options: the plan holds the fallback bar (drawbox), no overlay and no   *)
(* extra input, and the template stage ends with the brand text reading    *)
(* the bar's label and defining the label the later stages use.            *)
(***************************************************************************)
C6_Template1FallbackBar ==
    (config.template_id = "template_1" /\ ~assets.brand_bar)
    => /\ (pc \in {"subtitle", "finalize"} \/ Returned)
             => TemplateFallback(filter_complex_parts, inputs_args, current_v_stream)
       /\ Returned
             => TemplateFallback(full_command.filter_complex, full_command.inputs,
                                 full_command.map_v)

C6_Witness ==
    /\ Returned
    /\ config.template_id = "template_1"
    /\ ~assets.brand_bar
    /\ config.subtitle_style = "yellow_bold"
    /\ config.crop_mode = "center_crop"
    /\ Len(full_command.filter_complex) >= 3
    /\ full_command.map_v = "[subtitled]"

\* What a stage may change.
StageState == <<current_v_stream, filter_complex_parts, inputs_args, next_input_idx>>

\* A stage whose option is unrecognized changes nothing of the stage state.
C7_SkippedStage ==
    /\ (pc = "crop" /\ Unrecognized(config.crop_mode, {"center_crop"}))
           => UNCHANGED StageState
    /\ (pc = "template" /\ Unrecognized(config.template_id, {"template_1", "template_2"}))
           => UNCHANGED StageState
    /\ (pc = "subtitle" /\ Unrecognized(config.subtitle_style, {"bold_white_box", "yellow_bold"}))
           => UNCHANGED StageState

\* The call ends as it does with the unrecognized options absent.
C7_SameAsAbsent ==
    (pc = "done" /\ SomeUnrecognized(config))
    => /\ Result = Compile(WithoutUnrecognized(config), video_info, assets, input_srt_path)
       /\ video_info.has_duration => outcome = "plan"

(***************************************************************************)
(* C7. An unrecognized non-empty crop_mode, template_id or subtitle_style  *)
(* raises nothing: the stage it names adds no fragment and no input and    *)
(* leaves the current video label as it was, and the call returns what it  *)
(* returns with that option absent (a plan, whenever the metadata carries  *)
(* the keys the function reads).                                           *)
(***************************************************************************)
C7_UnrecognizedTolerated == [][C7_SkippedStage]_vars /\ []C7_SameAsAbsent

C7_Witness ==
    /\ Returned
    /\ config.subtitle_style = "nonexistent_style"
    /\ config.template_id = "template_9"
    /\ config.crop_mode = "fit_blur"
    /\ config.zoom_effect
    /\ full_command.map_v = "[zoomed]"

(***************************************************************************)
(* C8. For portrait or square metadata (width <= height) crop_mode         *)
(* "center_crop" is a no-op: no crop fragment, the video label is not      *)
(* rebound, and the plan is the one compiled with crop_mode absent.        *)
(***************************************************************************)
C8_PortraitCropNoOp ==
    (config.crop_mode = "center_crop" /\ video_info.width <= video_info.height)
    => /\ \A i \in DOMAIN filter_complex_parts : filter_complex_parts[i].filter # "crop"
       /\ pc = "zoom" => (current_v_stream = "[0:v]" /\ filter_complex_parts = <<>>)
       /\ pc = "done"
             => Result = Compile([config EXCEPT !.crop_mode = None],
                                 video_info, assets, input_srt_path)

C8_Witness ==
    /\ Returned
    /\ config.crop_mode = "center_crop"
    /\ video_info.width = video_info.height
    /\ video_info.width > 0
    /\ config.zoom_effect
    /\ full_command.filter_complex # <<>>

\* The label the fragments leave current.
LastLabel(parts) == IF parts = <<>> THEN "[0:v]" ELSE parts[Len(parts)].out

(***************************************************************************)
(* C10. The stream labels form one unbroken chain: the first fragment      *)
(* reads the decoded video of input 0, every later fragment reads the      *)
(* label of the fragment before it, every label is defined once, the       *)
(* fragments follow the order crop, zoom, template, subtitle, and the      *)
(* video map of a plan with fragments is the last fragment's label.        *)
(***************************************************************************)
C10_HandleChain ==
    /\ (pc # "start" /\ outcome # "KeyError")
           => /\ Chained(filter_complex_parts)
              /\ current_v_stream = LastLabel(filter_complex_parts)
    /\ Returned
           => /\ full_command.filter_complex = filter_complex_parts
              /\ full_command.map_v = LastLabel(full_command.filter_complex)

C10_Witness ==
    /\ Returned
    /\ config.crop_mode = "center_crop"
    /\ config.zoom_effect
    /\ config.template_id = "template_1"
    /\ assets.brand_bar
    /\ config.subtitle_style = "bold_white_box"
    /\ Len(full_command.filter_complex) = 5
    /\ full_command.map_v = "[subtitled]"

====
